---- MODULE Spec2Model ----
(***************************************************************************)
(* Model of the podcast retrieval core:                                    *)
(*   src/src/audio_processor.py  identify_speakers, chunk_transcript_by_time*)
(*                               transcribe_with_timestamps                *)
(*   src/src/text_indexer.py     add_transcript_chunks, _semantic_search,   *)
(*                               _keyword_search, _hybrid_search,           *)
(*                               search_by_episode, get_collection_stats,   *)
(*                               clear_collection                           *)
(*   src/src/rag_engine.py       query_podcasts, format_context,            *)
(*                               generate_gemini_response,                  *)
(*                               generate_openai_response, _format_timestamp*)
(*   src/src/utils.py            format_time, save_episode_data,            *)
(*                               save_transcript, clear_storage             *)
(*   src/app.py                  Process Episode, Clear All Data            *)
(*                                                                         *)
(* Conventions.                                                            *)
(*  - Time is counted in ticks of half a second (TicksPerSecond = 2), so   *)
(*    10.5 s is 21 ticks; every value used is a multiple of 0.5 s and is   *)
(*    exact in binary floating point, so float arithmetic is exact.        *)
(*  - A Python str is a sequence of one-character strings.                 *)
(*  - A Python list is a sequence (1-based); enumerate index i of the      *)
(*    source is position i+1.  A dict keyed by segment index is a function *)
(*    on 0..n-1.                                                           *)
(*  - A list object that two places may share is modelled by an alias      *)
(*    field: a chunk's 'words' list is either its own (words_alias = 0,    *)
(*    contents in words) or the very list object of segment k              *)
(*    (words_alias = k, contents in segments[k].words).                    *)
(***************************************************************************)
EXTENDS Integers, Sequences, FiniteSets, TLC

VARIABLES
  transcript,      \* the transcript dict the caller holds (its lists are shared objects)
  speakers,        \* the speaker dict the caller holds
  speaker_source,  \* where that dict came from: "none", "identify_speakers", "caller"
  results,         \* the lists returned by the calls of chunk_transcript_by_time so far
  collection,      \* the podcast_chunks collection, in insertion order
  search,          \* the last search: its arguments, the backend's answers and the result
  raised,          \* whether the last TextIndexer operation raised to its caller
  op,              \* the last other operation: its name, arguments, outcomes and return
  engine,          \* the RAGEngine object: its keys and default model
  session,         \* st.session_state.episodes of the browser session, by episode id
  disk             \* the files kept: the Episode Store, the transcripts, temporary wavs

vars ==
  <<transcript, speakers, speaker_source, results, collection, search, raised, op, engine,
    session, disk>>

(***************************************************************************)
(* Bounds of the explored inputs.                                          *)
(***************************************************************************)
MaxSegs == 3
MaxCalls == 2
MaxEntries == 5
MaxEpisodes == 3
MaxResults == 3

(***************************************************************************)
(* Program constants.                                                      *)
(***************************************************************************)
\* times are floats in seconds; a tick is half a second
TicksPerSecond == 2
\* identify_speakers: "if pause > 2.0"
PauseThreshold == 2 * TicksPerSecond
\* chunk_transcript_by_time: "chunk_duration: int = 30"
DefaultChunkDuration == 30 * TicksPerSecond
\* current_chunk['start_time'] = None : no time is negative, -1 stands for None
None == -1

(***************************************************************************)
(* Strings.                                                                *)
(***************************************************************************)
UpperCase == <<"A","B","C","D","E","F","G","H","I","J","K","L","M",
               "N","O","P","Q","R","S","T","U","V","W","X","Y","Z">>
LowerCase == <<"a","b","c","d","e","f","g","h","i","j","k","l","m",
               "n","o","p","q","r","s","t","u","v","w","x","y","z">>

IsSpace(c) == c \in {" ", "\t", "\n"}

\* bool(s.strip()): the string has a character that is not whitespace
StripNonEmpty(s) == \E k \in 1..Len(s) : ~IsSpace(s[k])

\* f"Speaker_{n}"
SpeakerLabel(n) == "Speaker_" \o ToString(n)

hello == <<"h","e","l","l","o">>
world == <<"w","o","r","l","d">>
ok == <<"o","k">>
blank == <<" ">>

(***************************************************************************)
(* Transcripts.                                                            *)
(***************************************************************************)
Gaps == {0, 4, 5}
Durations == {30, 70}
SegTexts == {ok, blank}

\* a whisper segment; with word_timestamps it carries a 'words' list
Segment(start, dur, text, withWords) ==
  LET base == [start |-> start, end |-> start + dur, text |-> text]
      w == IF StripNonEmpty(text)
             THEN <<[word |-> text, start |-> start, end |-> start + dur]>>
             ELSE <<>>
  IN  IF withWords THEN base @@ [words |-> w] ELSE base

RECURSIVE SegmentLists(_, _)
SegmentLists(n, withWords) ==
  IF n = 0 THEN {<<>>}
  ELSE LET shorter == SegmentLists(n - 1, withWords)
       IN shorter \cup
          { Append(s, Segment(IF s = <<>> THEN 0 ELSE s[Len(s)].end + g, d, t, withWords)) :
              s \in {x \in shorter : Len(x) = n - 1},
              g \in (IF n = 1 THEN {0} ELSE Gaps), d \in Durations, t \in SegTexts }

\* the worked example: 0-10 'hello', 10.5-15 'world', 18-25 'ok'
ExampleSegments ==
  << Segment(0, 20, hello, TRUE), Segment(21, 9, world, TRUE), Segment(36, 14, ok, TRUE) >>

Transcripts ==
  { [segments |-> s, duration |-> IF s = <<>> THEN 0 ELSE s[Len(s)].end] :
       s \in SegmentLists(MaxSegs, TRUE) \cup SegmentLists(MaxSegs, FALSE) \cup {ExampleSegments} }
  \cup { [duration |-> 0] }

\* transcript.get('segments', [])
GetSegments(t) == IF "segments" \in DOMAIN t THEN t.segments ELSE <<>>

\* segment.get('words', [])
GetWords(seg) == IF "words" \in DOMAIN seg THEN seg.words ELSE <<>>

(***************************************************************************)
(* identify_speakers                                                       *)
(***************************************************************************)
NoSpeakers == [i \in {} |-> "Unknown"]

\* a pause of exactly 2.0 taken for a speaker change
PauseDetected_Inclusive(pause) == pause >= PauseThreshold

\* "if pause > 2.0"
PauseDetected(pause) == pause > PauseThreshold

\* state of the loop after segments 0..i : the dict and the running counter
RECURSIVE IdentifyLoop(_, _)
IdentifyLoop(segments, i) ==
  IF i = 0
    THEN [speakers |-> [k \in {0} |-> SpeakerLabel(0)], speaker_count |-> 0]
    ELSE LET prev == IdentifyLoop(segments, i - 1)
             prev_end == segments[i].end
             curr_start == segments[i + 1].start
             pause == curr_start - prev_end
         IN  IF PauseDetected(pause)
               THEN [speakers |-> prev.speakers @@ [k \in {i} |-> SpeakerLabel(prev.speaker_count + 1)],
                     speaker_count |-> prev.speaker_count + 1]
               ELSE [speakers |-> prev.speakers @@ [k \in {i} |-> prev.speakers[i - 1]],
                     speaker_count |-> prev.speaker_count]

\* the loop stopping one segment short
identify_speakers_ShortLoop(t) ==
  LET segments == GetSegments(t)
  IN  IF Len(segments) <= 1 THEN NoSpeakers
      ELSE IdentifyLoop(segments, Len(segments) - 2).speakers

identify_speakers(t) ==
  LET segments == GetSegments(t)
  IN  IF segments = <<>> THEN NoSpeakers
      ELSE IdentifyLoop(segments, Len(segments) - 1).speakers

(***************************************************************************)
(* chunk_transcript_by_time                                                *)
(***************************************************************************)
\* speakers.get(i, 'Unknown') if speakers else 'Unknown'
SpeakerOf(sp, i) == IF i \in DOMAIN sp THEN sp[i] ELSE "Unknown"

EmptyChunk ==
  [text |-> <<>>, start_time |-> None, end_time |-> None,
   words |-> <<>>, words_alias |-> 0, speaker |-> "Unknown"]

\* the chunk opened at segment i (1-based position) when the previous one is closed:
\* 'words': segment.get('words', []) is the segment's own list object when it has one
OpenedChunk(seg, pos, speaker) ==
  [text |-> seg.text, start_time |-> seg.start, end_time |-> seg.end,
   words |-> <<>>,
   words_alias |-> IF "words" \in DOMAIN seg THEN pos ELSE 0,
   speaker |-> speaker]

\* "elif current_chunk['end_time'] - current_chunk['start_time'] >= chunk_duration"
DurationReached(chunk, chunk_duration) ==
  chunk.end_time - chunk.start_time >= chunk_duration

\* "if speaker != current_chunk['speaker'] and current_chunk['text'].strip()"
SpeakerChanged(chunk, speaker) ==
  speaker # chunk.speaker /\ StripNonEmpty(chunk.text)

\* one iteration of the for loop; st = [segments, chunks, current_chunk]
ChunkStep(st, pos, sp, chunk_duration) ==
  LET segment == st.segments[pos]
      speaker == SpeakerOf(sp, pos - 1)
      cur0 == st.current_chunk
      cur1 == IF cur0.start_time = None
                THEN [cur0 EXCEPT !.start_time = segment.start, !.speaker = speaker]
                ELSE cur0
      cur2 == [cur1 EXCEPT !.end_time = segment.end,
                           !.text = @ \o <<" ">> \o segment.text]
      \* current_chunk['words'].extend(segment.get('words', []))
      ext == GetWords(segment)
      cur3 == IF cur2.words_alias = 0 THEN [cur2 EXCEPT !.words = @ \o ext] ELSE cur2
      segs3 == IF cur2.words_alias = 0 THEN st.segments
               ELSE [st.segments EXCEPT ![cur2.words_alias].words = @ \o ext]
  IN  IF SpeakerChanged(cur3, speaker) \/ DurationReached(cur3, chunk_duration)
        THEN [segments |-> segs3,
              chunks |-> Append(st.chunks, cur3),
              current_chunk |-> OpenedChunk(segs3[pos], pos, speaker)]
        ELSE [segments |-> segs3, chunks |-> st.chunks, current_chunk |-> cur3]

RECURSIVE ChunkLoop(_, _, _, _)
ChunkLoop(segments, pos, sp, chunk_duration) ==
  IF pos = 0
    THEN [segments |-> segments, chunks |-> <<>>, current_chunk |-> EmptyChunk]
    ELSE ChunkStep(ChunkLoop(segments, pos - 1, sp, chunk_duration), pos, sp, chunk_duration)

\* the returned list and the segments as the call leaves them
chunk_transcript_by_time(t, sp, chunk_duration) ==
  LET segments == GetSegments(t)
      fin == ChunkLoop(segments, Len(segments), sp, chunk_duration)
  IN  [chunks |-> IF StripNonEmpty(fin.current_chunk.text)
                    THEN Append(fin.chunks, fin.current_chunk)
                    ELSE fin.chunks,
       segments |-> fin.segments]

(***************************************************************************)
(* More of Python's str                                                    *)
(***************************************************************************)
\* c.lower() of one character
LowerChar(c) ==
  IF \E k \in 1..Len(UpperCase) : UpperCase[k] = c
    THEN LowerCase[CHOOSE k \in 1..Len(UpperCase) : UpperCase[k] = c]
    ELSE c

\* s.lower()
Lower(s) == [k \in 1..Len(s) |-> LowerChar(s[k])]

\* s.split(): the maximal runs of non-whitespace characters, in order
RECURSIVE SplitFrom(_, _, _)
SplitFrom(s, k, word) ==
  IF k > Len(s)
    THEN IF word = <<>> THEN <<>> ELSE <<word>>
    ELSE IF IsSpace(s[k])
           THEN (IF word = <<>> THEN <<>> ELSE <<word>>) \o SplitFrom(s, k + 1, <<>>)
           ELSE SplitFrom(s, k + 1, Append(word, s[k]))

Split(s) == SplitFrom(s, 1, <<>>)

\* "term in doc" for two strings
Contains(doc, term) ==
  \E o \in 0..(Len(doc) - Len(term)) : SubSeq(doc, o + 1, o + Len(term)) = term

\* "x in lst" for a list
InList(x, lst) == \E k \in 1..Len(lst) : lst[k] = x

(***************************************************************************)
(* The collection (the embedding-similarity backend).                      *)
(* An entry is [id, document, metadata]; the collection keeps insertion    *)
(* order.  A query ranks the entries by the distance of their document to  *)
(* the query text; which distances the embedding model gives is not the    *)
(* program's to decide, so a search draws them (dist: document -> number). *)
(* Equal documents have equal distance; ties keep insertion order.         *)
(***************************************************************************)
EmptyResult == [documents |-> <<>>, metadatas |-> <<>>, distances |-> <<>>]

\* entry p comes before entry q in the ranking
RankedBefore(coll, dist, p, q) ==
  \/ dist[coll[p].document] < dist[coll[q].document]
  \/ dist[coll[p].document] = dist[coll[q].document] /\ p < q

RECURSIVE RankPositions(_, _, _)
RankPositions(coll, dist, S) ==
  IF S = {} THEN <<>>
  ELSE LET m == CHOOSE p \in S : \A q \in S \ {p} : RankedBefore(coll, dist, p, q)
       IN  <<m>> \o RankPositions(coll, dist, S \ {m})

\* collection.query(query_texts=[query], n_results=k, include=[documents, metadatas, distances])
\* (the inner lists of the answer)
CollectionQuery(coll, dist, k) ==
  LET order == RankPositions(coll, dist, 1..Len(coll))
      top == SubSeq(order, 1, IF k < Len(order) THEN k ELSE Len(order))
  IN  [documents |-> [r \in 1..Len(top) |-> coll[top[r]].document],
       metadatas |-> [r \in 1..Len(top) |-> coll[top[r]].metadata],
       distances |-> [r \in 1..Len(top) |-> dist[coll[top[r]].document]]]

(***************************************************************************)
(* TextIndexer                                                             *)
(***************************************************************************)
\* f"{episode_id}_chunk_{i}"
ChunkId(episode_id, i) == episode_id \o "_chunk_" \o ToString(i)

\* the (document, metadata, id) built for the chunk at enumerate index i
IndexEntry(chunk, i, episode_id, episode_title) ==
  [id |-> ChunkId(episode_id, i),
   document |-> chunk.text,
   metadata |-> [episode_id |-> episode_id, episode_title |-> episode_title,
                 start_time |-> chunk.start_time, end_time |-> chunk.end_time,
                 speaker |-> chunk.speaker, chunk_index |-> i]]

\* the documents/metadatas/ids lists built by the loop of add_transcript_chunks
RECURSIVE BuildEntries(_, _, _, _)
BuildEntries(chunks, n, episode_id, episode_title) ==
  IF n = 0 THEN <<>>
  ELSE LET before == BuildEntries(chunks, n - 1, episode_id, episode_title)
           chunk == chunks[n]
       IN  IF ~StripNonEmpty(chunk.text)
             THEN before
             ELSE Append(before, IndexEntry(chunk, n - 1, episode_id, episode_title))

\* _semantic_search; failed: the backend call raised
SemanticSearch(coll, dist, n_results, failed) ==
  IF failed THEN EmptyResult ELSE CollectionQuery(coll, dist, n_results)

\* the match made on the document as stored, not lowercased
KeywordMatch_CaseSensitive(doc, query_terms) ==
  \E t \in 1..Len(query_terms) : Contains(doc, query_terms[t])

\* "if any(term in doc_lower for term in query_terms)"
KeywordMatch(doc, query_terms) ==
  \E t \in 1..Len(query_terms) : Contains(Lower(doc), query_terms[t])

\* the filter loop of _keyword_search from candidate i on; acc holds the filtered lists
RECURSIVE KeywordLoop(_, _, _, _, _)
KeywordLoop(cands, i, n_results, query_terms, acc) ==
  IF i > Len(cands.documents) THEN acc
  ELSE LET acc1 == IF KeywordMatch(cands.documents[i], query_terms)
                     THEN [documents |-> Append(acc.documents, cands.documents[i]),
                           metadatas |-> Append(acc.metadatas, cands.metadatas[i]),
                           distances |-> Append(acc.distances, cands.distances[i])]
                     ELSE acc
       IN  IF Len(acc1.documents) >= n_results
             THEN acc1
             ELSE KeywordLoop(cands, i + 1, n_results, query_terms, acc1)

\* _keyword_search
KeywordSearch(coll, dist, query, n_results, failed) ==
  IF failed THEN EmptyResult
  ELSE KeywordLoop(CollectionQuery(coll, dist, n_results * 2), 1, n_results,
                   Split(Lower(query)), EmptyResult)

\* every semantic hit taken, a repeated document text too
SemanticTaken_Always(doc, combined) == TRUE

\* "if doc not in combined_documents": the semantic hit is taken
SemanticTaken(doc, combined) == ~InList(doc, combined.documents)

\* the first loop of _hybrid_search
RECURSIVE HybridSemanticLoop(_, _)
HybridSemanticLoop(sem, i) ==
  IF i = 0 THEN EmptyResult
  ELSE LET combined == HybridSemanticLoop(sem, i - 1)
       IN  IF SemanticTaken(sem.documents[i], combined)
             THEN [documents |-> Append(combined.documents, sem.documents[i]),
                   metadatas |-> Append(combined.metadatas, sem.metadatas[i]),
                   distances |-> Append(combined.distances, sem.distances[i])]
             ELSE combined

\* the second loop of _hybrid_search
RECURSIVE HybridKeywordLoop(_, _, _, _)
HybridKeywordLoop(kw, i, n_results, start) ==
  IF i = 0 THEN start
  ELSE LET combined == HybridKeywordLoop(kw, i - 1, n_results, start)
       IN  IF ~InList(kw.documents[i], combined.documents)
              /\ Len(combined.documents) < n_results
             THEN [documents |-> Append(combined.documents, kw.documents[i]),
                   metadatas |-> Append(combined.metadatas, kw.metadatas[i]),
                   distances |-> Append(combined.distances, kw.distances[i])]
             ELSE combined

\* lst[:n]
Take(lst, n) == SubSeq(lst, 1, IF n < Len(lst) THEN n ELSE Len(lst))

\* _hybrid_search; failed1, failed2: the first, the second backend call raised
HybridSearch(coll, dist, query, n_results, failed1, failed2) ==
  LET semantic_results == SemanticSearch(coll, dist, n_results, failed1)
      keyword_results == KeywordSearch(coll, dist, query, n_results, failed2)
      combined1 == HybridSemanticLoop(semantic_results, Len(semantic_results.documents))
      combined == HybridKeywordLoop(keyword_results, Len(keyword_results.documents),
                                    n_results, combined1)
  IN  [documents |-> Take(combined.documents, n_results),
       metadatas |-> Take(combined.metadatas, n_results),
       distances |-> Take(combined.distances, n_results)]

\* the last branch taken to the keyword search instead
search_similar_content_KeywordFallback(coll, dist, query, n_results, search_strategy, failed1, failed2) ==
  IF search_strategy = "semantic" THEN SemanticSearch(coll, dist, n_results, failed1)
  ELSE IF search_strategy = "hybrid"
         THEN HybridSearch(coll, dist, query, n_results, failed1, failed2)
  ELSE KeywordSearch(coll, dist, query, n_results, failed1)

\* search_similar_content
search_similar_content(coll, dist, query, n_results, search_strategy, failed1, failed2) ==
  IF search_strategy = "semantic" THEN SemanticSearch(coll, dist, n_results, failed1)
  ELSE IF search_strategy = "keyword" THEN KeywordSearch(coll, dist, query, n_results, failed1)
  ELSE IF search_strategy = "hybrid"
         THEN HybridSearch(coll, dist, query, n_results, failed1, failed2)
  ELSE SemanticSearch(coll, dist, n_results, failed1)

\* where={"episode_id": episode_id}: the stored entries of the episode, in stored order
WhereEpisode(coll, episode_id) ==
  SelectSeq(coll, LAMBDA e : e.metadata.episode_id = episode_id)

\* collection.get(where=..., include=[documents, metadatas]) reshaped by lines 209-213
GetAll(entries) ==
  [documents |-> [k \in 1..Len(entries) |-> entries[k].document],
   metadatas |-> [k \in 1..Len(entries) |-> entries[k].metadata],
   distances |-> [k \in 1..Len(entries) |-> 0]]

\* search_by_episode; failed: the backend call raised
search_by_episode(coll, dist, episode_id, query, n_results, failed) ==
  IF failed THEN EmptyResult
  ELSE IF query # <<>>
         THEN CollectionQuery(WhereEpisode(coll, episode_id), dist, n_results)
  ELSE GetAll(WhereEpisode(coll, episode_id))

\* the episode ids met by the loop of get_collection_stats
StatsEpisodeIds(coll) == { coll[k].metadata.episode_id : k \in 1..Len(coll) }

\* episode_titles: the title of the last stored entry of each episode
StatsEpisodeTitles(coll) ==
  [id \in StatsEpisodeIds(coll) |->
     LET last == CHOOSE k \in 1..Len(coll) :
                    /\ coll[k].metadata.episode_id = id
                    /\ \A j \in (k + 1)..Len(coll) : coll[j].metadata.episode_id # id
     IN  coll[last].metadata.episode_title]

\* capacity_status
CapacityStatus(n) ==
  IF n >= 3 THEN "Successfully indexing " \o ToString(n) \o " episodes"
  ELSE IF n = 2 THEN "Ready for 3rd episode"
  ELSE IF n = 1 THEN "Ready for 2nd and 3rd episodes"
  ELSE "Ready for more episodes"

\* get_collection_stats; failed: a backend call raised
get_collection_stats(coll, failed) ==
  IF failed
    THEN [total_chunks |-> 0, total_episodes |-> 0, episode_ids |-> {},
          indexing_capacity |-> "Ready for 3+ episodes"]
    ELSE [total_chunks |-> Len(coll),
          total_episodes |-> Cardinality(StatsEpisodeIds(coll)),
          episode_ids |-> StatsEpisodeIds(coll),
          episode_titles |-> StatsEpisodeTitles(coll),
          indexing_capacity |-> CapacityStatus(Cardinality(StatsEpisodeIds(coll))),
          max_capacity |-> 100]

\* what clear_collection leaves in the collection; failed: collection.delete() raised,
\* which the except clause logs
clear_collection(coll, failed) == IF failed THEN coll ELSE <<>>

(***************************************************************************)
(* The pipeline: a caller holds a transcript, may label it, and chunks it.  *)
(***************************************************************************)
CallerLabels == {SpeakerLabel(0), SpeakerLabel(1)}

\* no other operation has been made
NoOp == [name |-> "none"]

\* str values of the engine: model ids, and the key of a backend ("" or None: not configured)
gemini == <<"g","e","m","i","n","i">>
openai == <<"o","p","e","n","a","i">>
llama == <<"l","l","a","m","a">>
NoKey == ""

\* RAGEngine.__init__ with no key in the environment or the configuration
DefaultEngine == [gemini_key |-> NoKey, openai_key |-> NoKey, default_model |-> gemini]

\* no search has been made
NoSearch ==
  [query |-> <<>>, n_results |-> 0, search_strategy |-> "none",
   dist |-> [d \in {} |-> 0], failed |-> <<FALSE, FALSE>>, result |-> EmptyResult]

\* {}: the empty dict
EmptyDict == [k \in {} |-> k]

\* a data folder without processed_episodes.json and without transcripts, and
\* no temporary wav left in the temp folder
EmptyDisk == [episodes |-> EmptyDict, transcripts |-> {}, temp |-> 0]

Init ==
  /\ transcript \in Transcripts
  /\ speakers = NoSpeakers
  /\ speaker_source = "none"
  /\ results = <<>>
  /\ collection = <<>>
  /\ search = NoSearch
  /\ raised = FALSE
  /\ op = NoOp
  /\ engine = DefaultEngine
  /\ session = <<>>
  /\ disk = EmptyDisk

\* speakers = audio_processor.identify_speakers(file_path, transcript)
IdentifySpeakers ==
  /\ results = <<>>
  /\ speaker_source = "none"
  /\ speakers' = identify_speakers(transcript)
  /\ speaker_source' = "identify_speakers"
  /\ UNCHANGED <<transcript, results, collection, search, raised, op, engine, session, disk>>

\* a caller passes a speaker dict of its own
SupplySpeakers ==
  /\ results = <<>>
  /\ speaker_source = "none"
  /\ GetSegments(transcript) # <<>>
  /\ \E sp \in [0..(Len(GetSegments(transcript)) - 1) -> CallerLabels] : speakers' = sp
  /\ speaker_source' = "caller"
  /\ UNCHANGED <<transcript, results, collection, search, raised, op, engine, session, disk>>

\* chunks = audio_processor.chunk_transcript_by_time(transcript, speakers)
ChunkTranscript ==
  /\ Len(results) < MaxCalls
  /\ LET r == chunk_transcript_by_time(transcript, speakers, DefaultChunkDuration)
     IN  /\ results' = Append(results, r.chunks)
         /\ transcript' = IF "segments" \in DOMAIN transcript
                            THEN [transcript EXCEPT !.segments = r.segments]
                            ELSE transcript
  /\ UNCHANGED <<speakers, speaker_source, collection, search, raised, op, engine, session, disk>>

Next == IdentifySpeakers \/ SupplySpeakers \/ ChunkTranscript

Spec == Init /\ [][Next]_vars

(***************************************************************************)
(* The index: episodes are added to the collection and it is searched.     *)
(***************************************************************************)
startup == <<"s","t","a","r","t","u","p">>
MyStartup == <<"M","y"," ","S","t","a","r","t","u","p">>
art == <<"a","r","t">>
ArtQuery == <<"A","r","t"," ","x">>

Documents == {MyStartup, art}
Queries == {startup, ArtQuery, blank}
Distances == {0, 1}
Strategies == {"semantic", "keyword", "hybrid", "fuzzy"}
EpisodeTitles == {"Pilot"}
EpisodeQueries == {<<>>, startup}

\* a chunk as the chunker returns it
IndexChunk(t) ==
  [text |-> t, start_time |-> 0, end_time |-> 60, words |-> <<>>,
   words_alias |-> 0, speaker |-> "Speaker_0"]

\* the chunk of a second speaker that follows it
LaterChunk(t) ==
  [text |-> t, start_time |-> 60, end_time |-> 120, words |-> <<>>,
   words_alias |-> 0, speaker |-> "Speaker_1"]

\* the chunk lists handed to the index
ChunkLists ==
  { <<IndexChunk(MyStartup)>>,
    <<IndexChunk(art)>>,
    <<IndexChunk(blank), IndexChunk(MyStartup)>>,
    <<IndexChunk(art), LaterChunk(art)>>,
    <<IndexChunk(MyStartup), LaterChunk(art)>>,
    <<IndexChunk(blank)>> }

\* f"episode_{n}"
EpisodeId(n) == "episode_" \o ToString(n)

\* the episodes that have entries in the collection
IndexedEpisodes == { collection[k].metadata.episode_id : k \in 1..Len(collection) }

InitIndex ==
  /\ transcript = [duration |-> 0]
  /\ speakers = NoSpeakers
  /\ speaker_source = "none"
  /\ results = <<>>
  /\ collection = <<>>
  /\ search = NoSearch
  /\ raised = FALSE
  /\ op = NoOp
  /\ engine = DefaultEngine
  /\ session = <<>>
  /\ disk = EmptyDisk

\* text_indexer.add_transcript_chunks(chunks, episode_id, episode_title)
\* for the next episode id not in use, or again for "episode_0", the id a
\* new session of the app starts from (app.py line 70), while it is the
\* only episode indexed.  collection.add
\* either raises (nothing is stored, and the except clause re-raises) or
\* stores the entries whose id the collection does not hold yet: an add
\* never replaces a stored entry.
AddTranscriptChunks ==
  /\ search = NoSearch
  /\ op = NoOp
  /\ \E chunks \in ChunkLists, n \in 0..(MaxEpisodes - 1), episode_title \in EpisodeTitles,
        failed \in BOOLEAN :
        LET episode_id == EpisodeId(n)
            entries == BuildEntries(chunks, Len(chunks), episode_id, episode_title)
            fresh == SelectSeq(entries,
                       LAMBDA e : \A k \in 1..Len(collection) : collection[k].id # e.id)
        IN  /\ EpisodeId(n) \in IndexedEpisodes => IndexedEpisodes = {EpisodeId(0)}
            /\ \A m \in 0..(n - 1) : EpisodeId(m) \in IndexedEpisodes
            /\ Len(collection) + Len(entries) <= MaxEntries
            /\ IF entries = <<>>
                 THEN /\ ~failed
                      /\ UNCHANGED collection
                      /\ raised' = FALSE
                 ELSE IF failed
                        THEN /\ UNCHANGED collection
                             /\ raised' = TRUE
                        ELSE /\ collection' = collection \o fresh
                             /\ raised' = FALSE
            /\ op' = [name |-> "add_transcript_chunks", chunks |-> chunks,
                      episode_id |-> episode_id, episode_title |-> episode_title,
                      failed |-> failed, before |-> collection]
            /\ UNCHANGED <<transcript, speakers, speaker_source, results, search, engine, session, disk>>

\* text_indexer.search_similar_content(query, n_results, search_strategy)
SearchSimilarContent ==
  /\ search = NoSearch
  /\ op = NoOp
  /\ \E query \in Queries, n_results \in 1..MaxResults, search_strategy \in Strategies,
        dist \in [Documents -> Distances], failed1 \in BOOLEAN, failed2 \in BOOLEAN :
        /\ \A d \in Documents :
              (\A k \in 1..Len(collection) : collection[k].document # d) => dist[d] = 0
        /\ search_strategy # "hybrid" => ~failed2
        /\ search' = [query |-> query, n_results |-> n_results,
                      search_strategy |-> search_strategy, dist |-> dist,
                      failed |-> <<failed1, failed2>>,
                      result |-> search_similar_content(collection, dist, query, n_results,
                                                        search_strategy, failed1, failed2)]
        /\ raised' = FALSE
        /\ UNCHANGED <<transcript, speakers, speaker_source, results, collection, op, engine, session, disk>>

\* text_indexer.search_by_episode(episode_id, query, n_results); an empty
\* query makes no ranking, so the backend's distances play no part
SearchByEpisode ==
  /\ search = NoSearch
  /\ op = NoOp
  /\ \E n \in 0..(MaxEpisodes - 1), query \in EpisodeQueries, n_results \in 1..MaxResults,
        dist \in [Documents -> Distances], failed \in BOOLEAN :
        /\ \A d \in Documents :
              (query = <<>> \/ \A k \in 1..Len(collection) : collection[k].document # d)
                 => dist[d] = 0
        /\ op' = [name |-> "search_by_episode", episode_id |-> EpisodeId(n),
                  query |-> query, n_results |-> n_results, dist |-> dist, failed |-> failed,
                  ret |-> search_by_episode(collection, dist, EpisodeId(n), query,
                                            n_results, failed)]
        /\ raised' = FALSE
        /\ UNCHANGED <<transcript, speakers, speaker_source, results, collection, search,
                       engine, session, disk>>

\* text_indexer.get_collection_stats()
GetCollectionStats ==
  /\ search = NoSearch
  /\ op = NoOp
  /\ \E failed \in BOOLEAN :
        /\ op' = [name |-> "get_collection_stats", failed |-> failed,
                  ret |-> get_collection_stats(collection, failed)]
        /\ raised' = FALSE
        /\ UNCHANGED <<transcript, speakers, speaker_source, results, collection, search,
                       engine, session, disk>>

\* text_indexer.clear_collection(): collection.delete() either deletes every
\* entry or raises
ClearCollection ==
  /\ search = NoSearch
  /\ op = NoOp
  /\ \E failed \in BOOLEAN :
        /\ collection' = clear_collection(collection, failed)
        /\ op' = [name |-> "clear_collection", failed |-> failed]
        /\ raised' = FALSE
        /\ UNCHANGED <<transcript, speakers, speaker_source, results, search, engine, session, disk>>

\* the script run that made the call ends; what it returned is not kept
EndOfRun ==
  /\ search # NoSearch \/ op # NoOp
  /\ search' = NoSearch
  /\ op' = NoOp
  /\ raised' = FALSE
  /\ UNCHANGED <<transcript, speakers, speaker_source, results, collection, engine, session, disk>>

NextIndex ==
  \/ AddTranscriptChunks
  \/ SearchSimilarContent
  \/ SearchByEpisode
  \/ GetCollectionStats
  \/ ClearCollection
  \/ EndOfRun

SpecIndex == InitIndex /\ [][NextIndex]_vars

(***************************************************************************)
(* RAGEngine and utils: timestamps, the context, generation, the query.    *)
(***************************************************************************)
\* the values a timestamp is asked for: a number (counted in ticks), None, a str
Number(t) == [type |-> "number", ticks |-> t]
NoneValue == [type |-> "NoneType"]
StrValue(chars) == [type |-> "str", chars |-> chars]

DigitChars == <<"0","1","2","3","4","5","6","7","8","9">>

\* str(n) for n >= 0
RECURSIVE Digits(_)
Digits(n) == IF n < 10 THEN <<DigitChars[n + 1]>>
             ELSE Digits(n \div 10) \o <<DigitChars[(n % 10) + 1]>>

\* f"{n:02d}": zero-padded to width 2, the sign counted in the width
Format02d(n) ==
  IF n < 0 THEN <<"-">> \o Digits(-n)
  ELSE IF n < 10 THEN <<"0">> \o Digits(n)
  ELSE Digits(n)

\* "except: return '00:00'"
ZeroTimestamp == <<"0","0",":","0","0">>

\* int(seconds // 60): the floor of the quotient, also below zero
Minutes(seconds) == seconds.ticks \div (60 * TicksPerSecond)

\* int(seconds % 60): the remainder has the sign of the divisor
Secs(seconds) == (seconds.ticks % (60 * TicksPerSecond)) \div TicksPerSecond

\* the seconds written without padding
_format_timestamp_SecsUnpadded(seconds) ==
  IF seconds.type # "number" THEN ZeroTimestamp
  ELSE Format02d(Minutes(seconds)) \o <<":">> \o Digits(Secs(seconds))

\* RAGEngine._format_timestamp; "//" on None or a str raises TypeError
_format_timestamp(seconds) ==
  IF seconds.type # "number" THEN ZeroTimestamp
  ELSE Format02d(Minutes(seconds)) \o <<":">> \o Format02d(Secs(seconds))

\* utils.format_time
format_time(seconds) ==
  IF seconds.type # "number" THEN ZeroTimestamp
  ELSE Format02d(Minutes(seconds)) \o <<":">> \o Format02d(Secs(seconds))

\* metadata.get(key, default)
Get(metadata, key, default) == IF key \in DOMAIN metadata THEN metadata[key] ELSE default

\* one context part: the fields of
\* "\nSource {i+1} - {episode_title} ({start_str} - {end_str})\nSpeaker: {speaker}\nContent: {doc}\n"
ContextPart(i, doc, metadata) ==
  [source |-> i + 1,
   episode_title |-> Get(metadata, "episode_title", "Unknown Episode"),
   start_str |-> _format_timestamp(Number(Get(metadata, "start_time", 0))),
   end_str |-> _format_timestamp(Number(Get(metadata, "end_time", 0))),
   speaker |-> Get(metadata, "speaker", "Unknown Speaker"),
   content |-> doc]

\* every pair gets a part
PartWanted_Always(doc, metadata) == TRUE

\* "if doc and metadata"
PartWanted(doc, metadata) == doc # <<>> /\ DOMAIN metadata # {}

\* the loop of format_context over the first n pairs of zip(documents, metadatas)
RECURSIVE ContextParts(_, _, _)
ContextParts(documents, metadatas, n) ==
  IF n = 0 THEN <<>>
  ELSE LET before == ContextParts(documents, metadatas, n - 1)
       IN  IF PartWanted(documents[n], metadatas[n])
             THEN Append(before, ContextPart(n - 1, documents[n], metadatas[n]))
             ELSE before

\* format_context: the literal it returns, or the parts that "\n".join joins
format_context(search_results) ==
  LET documents == search_results.documents
      metadatas == search_results.metadatas
      pairs == IF Len(documents) < Len(metadatas) THEN Len(documents) ELSE Len(metadatas)
  IN  IF documents = <<>>
        THEN [literal |-> "No relevant content found.", parts |-> <<>>]
        ELSE [literal |-> "", parts |-> ContextParts(documents, metadatas, pairs)]

\* the literal texts of the responses (str values, character by character)
GeminiKeyMessage ==
  <<"E","r","r","o","r",":"," ","G","e","m","i","n","i"," ","A","P","I"," ","k","e","y",
    " ","n","o","t"," ","c","o","n","f","i","g","u","r","e","d","."," ","P","l","e","a",
    "s","e"," ","s","e","t"," ","y","o","u","r"," ","G","e","m","i","n","i"," ","A","P",
    "I"," ","k","e","y"," ","i","n"," ","c","o","n","f","i","g",".","j","s","o","n"," ",
    "o","r"," ","e","n","v","i","r","o","n","m","e","n","t"," ","v","a","r","i","a","b",
    "l","e","s",".">>

OpenAIKeyMessage ==
  <<"E","r","r","o","r",":"," ","O","p","e","n","A","I"," ","A","P","I"," ","k","e","y",
    " ","n","o","t"," ","c","o","n","f","i","g","u","r","e","d","."," ","P","l","e","a",
    "s","e"," ","s","e","t"," ","y","o","u","r"," ","O","p","e","n","A","I"," ","A","P",
    "I"," ","k","e","y"," ","i","n"," ","c","o","n","f","i","g",".","j","s","o","n"," ",
    "o","r"," ","e","n","v","i","r","o","n","m","e","n","t"," ","v","a","r","i","a","b",
    "l","e","s",".">>

UnknownModelPrefix ==
  <<"E","r","r","o","r",":"," ","U","n","k","n","o","w","n"," ","m","o","d","e","l"," ",
    "'">>

UnknownModelSuffix ==
  <<"'","."," ","A","v","a","i","l","a","b","l","e"," ","m","o","d","e","l","s",":"," ",
    "g","e","m","i","n","i",","," ","o","p","e","n","a","i">>

GenerationErrorPrefix ==
  <<"E","r","r","o","r"," ","g","e","n","e","r","a","t","i","n","g"," ","r","e","s","p",
    "o","n","s","e",":"," ">>

\* model=None
NoneModel == <<"None">>

\* "if not self.gemini_key": None and "" both count as no key
NoKeyConfigured(key) == key = NoKey

\* what the generation backend does when it is called: it answers with a
\* text, or the call raises an exception with a message
Answer(text) == [kind |-> "text", text |-> text]
Raises(message) == [kind |-> "raises", message |-> message]

\* generate_gemini_response; backend: what generate_content does if called
generate_gemini_response(eng, backend) ==
  IF NoKeyConfigured(eng.gemini_key) THEN GeminiKeyMessage
  ELSE IF backend.kind = "raises" THEN GenerationErrorPrefix \o backend.message
  ELSE backend.text

\* generate_openai_response; backend: what ChatCompletion.create does if called
generate_openai_response(eng, backend) ==
  IF NoKeyConfigured(eng.openai_key) THEN OpenAIKeyMessage
  ELSE IF backend.kind = "raises" THEN GenerationErrorPrefix \o backend.message
  ELSE backend.text

\* "if model is None: model = self.default_model"
ResolvedModel(eng, model) == IF model = NoneModel THEN eng.default_model ELSE model

\* the generation backend that query_podcasts ends up calling, "none" if none
BackendCalled(eng, model) ==
  LET m == ResolvedModel(eng, model)
  IN  IF m = gemini /\ ~NoKeyConfigured(eng.gemini_key) THEN "gemini"
      ELSE IF m = openai /\ ~NoKeyConfigured(eng.openai_key) THEN "openai"
      ELSE "none"

\* the sources emptied when the response is not the backend's text
query_podcasts_SourcesDropped(eng, search_results, search_strategy, model, backend) ==
  LET m == ResolvedModel(eng, model)
      response == IF m = gemini THEN generate_gemini_response(eng, backend)
                  ELSE IF m = openai THEN generate_openai_response(eng, backend)
                  ELSE UnknownModelPrefix \o m \o UnknownModelSuffix
      kept == IF BackendCalled(eng, model) # "none" /\ backend.kind = "text"
                THEN search_results ELSE EmptyResult
  IN  [response |-> response,
       sources |-> kept,
       search_info |-> [strategy |-> search_strategy, model |-> m,
                        results_count |-> Len(kept.documents)]]

\* query_podcasts from the retrieval on (lines 85-104); search_results is what
\* text_indexer.search_similar_content returned.  No call in its try block
\* raises: the search, format_context and both generate functions catch
\* every exception themselves.
query_podcasts(eng, search_results, search_strategy, model, backend) ==
  LET m == ResolvedModel(eng, model)
      response == IF m = gemini THEN generate_gemini_response(eng, backend)
                  ELSE IF m = openai THEN generate_openai_response(eng, backend)
                  ELSE UnknownModelPrefix \o m \o UnknownModelSuffix
  IN  [response |-> response,
       sources |-> search_results,
       search_info |-> [strategy |-> search_strategy, model |-> m,
                        results_count |-> Len(search_results.documents)]]

(***************************************************************************)
(* The engine: it answers queries over an index and formats what it shows. *)
(***************************************************************************)
boom == <<"b","o","o","m">>
SomeKey == "key"

Engines ==
  [gemini_key : {NoKey, SomeKey}, openai_key : {NoKey, SomeKey},
   default_model : {gemini, llama}]
Models == {NoneModel, gemini, openai, llama}
Backends == {Answer(ok), Raises(boom)}

\* the indexes the engine is asked over
RagCollections ==
  { <<>>,
    BuildEntries(<<IndexChunk(MyStartup), LaterChunk(art)>>, 2, EpisodeId(0), "Pilot"),
    BuildEntries(<<IndexChunk(MyStartup), LaterChunk(art)>>, 2, EpisodeId(0), "Pilot")
      \o BuildEntries(<<IndexChunk(art)>>, 1, EpisodeId(1), "Pilot") }

\* the values timestamps are asked for, numbers in ticks: 125 s is 250
Seconds ==
  { Number(t) : t \in {0, 1, 119, 120, 250, 7199, 12000, -1, -2, -120, -250} }
    \cup {NoneValue, StrValue(<<"1","2">>)}

\* the (document, metadata) pairs of the results handed to format_context
EmptyMetadata == [k \in {} |-> 0]
ContextPairs ==
  { <<MyStartup, IndexEntry(IndexChunk(MyStartup), 0, EpisodeId(0), "Pilot").metadata>>,
    <<art, IndexEntry(LaterChunk(art), 1, EpisodeId(0), "Pilot").metadata>>,
    <<<<>>, IndexEntry(IndexChunk(art), 0, EpisodeId(1), "Pilot").metadata>>,
    <<art, EmptyMetadata>>,
    <<art, [episode_id |-> EpisodeId(1)]>> }

\* a search result made of the given pairs
ResultOf(pairs) ==
  [documents |-> [k \in 1..Len(pairs) |-> pairs[k][1]],
   metadatas |-> [k \in 1..Len(pairs) |-> pairs[k][2]],
   distances |-> [k \in 1..Len(pairs) |-> 0]]

ContextResults ==
  { ResultOf(pairs) : pairs \in UNION { [1..n -> ContextPairs] : n \in 0..MaxResults } }

InitRag ==
  /\ transcript = [duration |-> 0]
  /\ speakers = NoSpeakers
  /\ speaker_source = "none"
  /\ results = <<>>
  /\ collection \in RagCollections
  /\ search = NoSearch
  /\ raised = FALSE
  /\ op = NoOp
  /\ engine \in Engines
  /\ session = <<>>
  /\ disk = EmptyDisk

\* rag_engine.query_podcasts(query, text_indexer, n_results, search_strategy, model)
QueryPodcasts ==
  /\ op = NoOp
  /\ \E query \in Queries, n_results \in 1..MaxResults, search_strategy \in Strategies,
        model \in Models, dist \in [Documents -> Distances],
        failed1 \in BOOLEAN, failed2 \in BOOLEAN, backend \in Backends :
        LET search_results == search_similar_content(collection, dist, query, n_results,
                                                     search_strategy, failed1, failed2)
        IN  /\ \A d \in Documents :
                  (\A k \in 1..Len(collection) : collection[k].document # d) => dist[d] = 0
            /\ search_strategy # "hybrid" => ~failed2
            /\ BackendCalled(engine, model) = "none" => backend = Answer(ok)
            /\ op' = [name |-> "query_podcasts", query |-> query, n_results |-> n_results,
                      search_strategy |-> search_strategy, model |-> model, dist |-> dist,
                      failed |-> <<failed1, failed2>>, backend |-> backend,
                      called |-> BackendCalled(engine, model),
                      context |-> format_context(search_results),
                      ret |-> query_podcasts(engine, search_results, search_strategy,
                                             model, backend)]
            /\ raised' = FALSE
            /\ UNCHANGED <<transcript, speakers, speaker_source, results, collection,
                           search, engine, session, disk>>

\* rag_engine.format_context(search_results)
FormatContext ==
  /\ op = NoOp
  /\ \E search_results \in ContextResults :
        op' = [name |-> "format_context", search_results |-> search_results,
               ret |-> format_context(search_results)]
  /\ raised' = FALSE
  /\ UNCHANGED <<transcript, speakers, speaker_source, results, collection, search, engine, session, disk>>

\* rag_engine._format_timestamp(seconds)
FormatTimestamp ==
  /\ op = NoOp
  /\ \E seconds \in Seconds :
        op' = [name |-> "_format_timestamp", seconds |-> seconds,
               ret |-> _format_timestamp(seconds)]
  /\ raised' = FALSE
  /\ UNCHANGED <<transcript, speakers, speaker_source, results, collection, search, engine, session, disk>>

\* utils.format_time(seconds)
FormatTime ==
  /\ op = NoOp
  /\ \E seconds \in Seconds :
        op' = [name |-> "format_time", seconds |-> seconds, ret |-> format_time(seconds)]
  /\ raised' = FALSE
  /\ UNCHANGED <<transcript, speakers, speaker_source, results, collection, search, engine, session, disk>>

NextRag == QueryPodcasts \/ FormatContext \/ FormatTimestamp \/ FormatTime \/ EndOfRun

SpecRag == InitRag /\ [][NextRag]_vars

(***************************************************************************)
(* The application: uploads are processed, the stored data is cleared and  *)
(* browser sessions begin, over one persistent index and one data folder.  *)
(***************************************************************************)
MaxLeaks == 1
MaxSession == 2

\* what whisper hears in an upload: one short segment, one long segment
\* without speech, a long segment followed by a short one
AppTranscripts ==
  { [segments |-> s, duration |-> s[Len(s)].end] :
      s \in { <<Segment(0, 30, ok, TRUE)>>,
              <<Segment(0, 70, blank, TRUE)>>,
              <<Segment(0, 70, ok, TRUE), Segment(70, 30, ok, TRUE)>> } }

\* how far the transcription of an upload gets: sf.read raises before the
\* temporary file exists; sf.write raises after mkstemp created it; the
\* written file is empty; model.transcribe raises; the result has no
\* segments; the result has segments
Transcriptions ==
  {"read_raises", "write_raises", "empty_file", "transcribe_raises", "no_segments",
   "transcribed"}

\* transcribe_with_timestamps(audio_path): the transcript returned, whether
\* the temporary wav was created, and how many temporary files the call
\* leaves behind.  os.remove follows model.transcribe only.
transcribe_with_timestamps(outcome, heard) ==
  [transcript |-> IF outcome = "transcribed" THEN heard ELSE EmptyDict,
   created |-> outcome # "read_raises",
   left |-> IF outcome \in {"write_raises", "empty_file", "transcribe_raises"}
              THEN 1 ELSE 0]

\* add_transcript_chunks on a collection: the collection afterwards, and
\* whether the call raised
add_transcript_chunks(coll, chunks, episode_id, episode_title, failed) ==
  LET entries == BuildEntries(chunks, Len(chunks), episode_id, episode_title)
      fresh == SelectSeq(entries, LAMBDA e : \A k \in 1..Len(coll) : coll[k].id # e.id)
  IN  IF entries = <<>> THEN [collection |-> coll, raised |-> FALSE]
      ELSE IF failed THEN [collection |-> coll, raised |-> TRUE]
      ELSE [collection |-> coll \o fresh, raised |-> FALSE]

\* the outcomes of writing processed_episodes.json: written, or an exception
\* before the file is opened (save_episode_data returns False)
Saves == {"saved", "refused"}

\* save_episode_data: the episodes load_episode_data reads afterwards
save_episode_data(episodes, episode_data, outcome) ==
  CASE outcome = "saved" ->
         [id \in DOMAIN episodes \cup {episode_data.id} |->
            IF id = episode_data.id THEN episode_data ELSE episodes[id]]
    [] outcome = "refused" -> episodes

\* len(set(speakers.values())) if speakers else 0
SpeakerCount(sp) == Cardinality({ sp[i] : i \in DOMAIN sp })

\* the episode_data dict; processed_at is the clock's reading, not modelled
EpisodeData(episode_id, episode_title, chunks, t, sp) ==
  [id |-> episode_id, title |-> episode_title, chunks |-> Len(chunks),
   duration |-> IF "duration" \in DOMAIN t THEN t.duration ELSE 0,
   speakers |-> SpeakerCount(sp), file_name |-> episode_title]

\* the episodes with entries in a collection
EpisodesIn(coll) == { coll[k].metadata.episode_id : k \in 1..Len(coll) }

InitApp ==
  /\ transcript = [duration |-> 0]
  /\ speakers = NoSpeakers
  /\ speaker_source = "none"
  /\ results = <<>>
  /\ collection = <<>>
  /\ search = NoSearch
  /\ raised = FALSE
  /\ op = NoOp
  /\ engine = DefaultEngine
  /\ session = <<>>
  /\ disk = EmptyDisk

\* the Process Episode button: transcription, speakers, chunks, the index,
\* the Episode Store, the transcript file and the session's episode list
\* (the handler reads only its length).  save_transcript follows a
\* save_episode_data that wrote to the same folder.
\* An exception of add_transcript_chunks ends the handler in its except
\* clause; a save_episode_data that returns False ends it with an error
\* message after the index took the chunks.
ProcessEpisode ==
  /\ search = NoSearch
  /\ op = NoOp
  /\ Len(session) < MaxSession
  /\ \E outcome \in Transcriptions, heard \in AppTranscripts, episode_title \in EpisodeTitles,
        failed \in BOOLEAN, save \in Saves :
        LET t == transcribe_with_timestamps(outcome, heard)
            usable == t.transcript # EmptyDict /\ GetSegments(t.transcript) # <<>>
            sp == identify_speakers(t.transcript)
            r == chunk_transcript_by_time(t.transcript, sp, DefaultChunkDuration)
            episode_id == EpisodeId(Len(session))
            added == add_transcript_chunks(collection, r.chunks, episode_id, episode_title,
                                           failed)
            episode_data == EpisodeData(episode_id, episode_title, r.chunks, t.transcript, sp)
            indexed == usable /\ ~added.raised
            saved == indexed /\ save = "saved"
        IN  /\ outcome # "transcribed" => heard = CHOOSE h \in AppTranscripts : TRUE
            /\ ~usable => ~failed
            /\ ~indexed => save = "saved"
            /\ disk.temp + t.left <= MaxLeaks
            /\ usable => Len(added.collection) <= MaxEntries
            /\ collection' = IF usable THEN added.collection ELSE collection
            /\ disk' = [episodes |-> IF indexed
                                       THEN save_episode_data(disk.episodes, episode_data, save)
                                       ELSE disk.episodes,
                        transcripts |-> IF saved
                                          THEN disk.transcripts \cup {episode_id}
                                          ELSE disk.transcripts,
                        temp |-> disk.temp + t.left]
            /\ session' = IF saved THEN Append(session, episode_data.id) ELSE session
            /\ raised' = FALSE
            /\ op' = [name |-> "process_episode", outcome |-> outcome, created |-> t.created,
                      episode_id |-> episode_id, chunks |-> r.chunks,
                      usable |-> usable, indexed |-> indexed, saved |-> saved,
                      before |-> collection, episodes_before |-> disk.episodes,
                      temp_before |-> disk.temp]
            /\ UNCHANGED <<transcript, speakers, speaker_source, results, search, engine>>

\* the outcomes of clear_storage: both removed; os.remove raised; the
\* episodes file removed and shutil.rmtree raised
Clearings == {"cleared", "remove_raises", "rmtree_raises"}

\* the Clear All Data button: clear_storage() and nothing else; the index
\* and the session's episode list are not touched
ClearAllData ==
  /\ search = NoSearch
  /\ op = NoOp
  /\ \E outcome \in Clearings :
        /\ outcome = "remove_raises" => disk.episodes # EmptyDict
        /\ outcome = "rmtree_raises" => disk.transcripts # {}
        /\ disk' = [disk EXCEPT
                      !.episodes = IF outcome = "remove_raises" THEN @ ELSE EmptyDict,
                      !.transcripts = IF outcome = "cleared" THEN {} ELSE @]
        /\ op' = [name |-> "clear_all_data", outcome |-> outcome,
                  episodes_before |-> disk.episodes, indexed_before |-> EpisodesIn(collection)]
  /\ raised' = FALSE
  /\ UNCHANGED <<transcript, speakers, speaker_source, results, collection, search, engine,
                 session>>

\* a new browser session: st.session_state has no 'episodes' yet, while
\* the index and the data folder are those of the sessions before
NewSession ==
  /\ search = NoSearch
  /\ op = NoOp
  /\ session # <<>>
  /\ session' = <<>>
  /\ UNCHANGED <<transcript, speakers, speaker_source, results, collection, search, raised,
                 op, engine, disk>>

NextApp == ProcessEpisode \/ ClearAllData \/ NewSession \/ EndOfRun

SpecApp == InitApp /\ [][NextApp]_vars

(***************************************************************************)
(* Vocabulary of the properties of the chunker and the segmenter.          *)
(***************************************************************************)
Segs == GetSegments(transcript)

\* the chunks of every list returned so far
ReturnedChunks ==
  UNION { { results[r][c] : c \in 1..Len(results[r]) } : r \in 1..Len(results) }

\* the contents of a returned chunk's 'words' list, as a caller reads it now
WordsOf(chunk) ==
  IF chunk.words_alias = 0 THEN chunk.words ELSE Segs[chunk.words_alias].words

\* segment starts and ends are strictly increasing, so a chunk's bounds name
\* the first and the last segment whose text it holds
FirstSeg(chunk) == CHOOSE j \in 1..Len(Segs) : Segs[j].start = chunk.start_time
LastSeg(chunk) == CHOOSE i \in 1..Len(Segs) : Segs[i].end = chunk.end_time
RunOf(chunk) == FirstSeg(chunk)..LastSeg(chunk)

RECURSIVE JoinTexts(_, _)
JoinTexts(j, i) ==
  IF i < j THEN <<>>
  ELSE IF i = j THEN Segs[j].text
  ELSE JoinTexts(j, i - 1) \o <<" ">> \o Segs[i].text

\* a chunk's text is the texts of the segments of its run, joined by spaces
\* (with a leading space when the run was accumulated from the empty chunk)
ChunkTextIsRun ==
  \A chunk \in ReturnedChunks :
     /\ \E j \in 1..Len(Segs) : Segs[j].start = chunk.start_time
     /\ \E i \in 1..Len(Segs) : Segs[i].end = chunk.end_time
     /\ chunk.text \in { JoinTexts(FirstSeg(chunk), LastSeg(chunk)),
                         <<" ">> \o JoinTexts(FirstSeg(chunk), LastSeg(chunk)) }

\* C1: every returned chunk holds text only from segments whose assigned
\* speaker is the chunk's 'speaker'; the segment at which the speaker changes
\* is not part of the chunk closed by that change (stated for the segments
\* that have text to contribute, those with non-blank text).
C1_SpeakerExclusive ==
  \A chunk \in ReturnedChunks :
     \A k \in RunOf(chunk) :
        StripNonEmpty(Segs[k].text) => SpeakerOf(speakers, k - 1) = chunk.speaker

\* C2: each segment's text contributes to exactly one chunk of a returned
\* list: none dropped, none in two chunks (stated for the segments with
\* non-blank text; a blank segment may vanish with an empty-text chunk).
C2_SegmentCoverage ==
  \A r \in 1..Len(results) :
     \A k \in 1..Len(Segs) :
        StripNonEmpty(Segs[k].text) =>
           Cardinality({ c \in 1..Len(results[r]) : k \in RunOf(results[r][c]) }) = 1

\* C3: consecutive chunks of a returned list do not overlap in time
\* (chunk[k].end_time <= chunk[k+1].start_time), and a chunk's bounds are the
\* start of its first segment and the end of its last one.
C3_NoOverlap ==
  /\ \A r \in 1..Len(results) :
        \A c \in 1..(Len(results[r]) - 1) :
           results[r][c].end_time <= results[r][c + 1].start_time
  /\ ChunkTextIsRun

\* C4: a chunk of more than one segment spans at most chunk_duration when
\* measured before its last segment was absorbed; only a chunk of a single
\* segment may exceed the threshold.
C4_DurationBound ==
  \A chunk \in ReturnedChunks :
     LastSeg(chunk) > FirstSeg(chunk) =>
        Segs[LastSeg(chunk) - 1].end - chunk.start_time <= DefaultChunkDuration

IsExampleTranscript ==
  /\ Len(Segs) = 3
  /\ \A k \in 1..3 : /\ Segs[k].start = ExampleSegments[k].start
                     /\ Segs[k].end = ExampleSegments[k].end
                     /\ Segs[k].text = ExampleSegments[k].text

\* C5: for 0-10 'hello', 10.5-15 'world', 18-25 'ok' and threshold 30 the
\* segmenter yields Speaker_0, Speaker_0, Speaker_1 and the chunker two
\* chunks: 0-15 Speaker_0 and 18-25 Speaker_1.
C5_WorkedExample ==
  (IsExampleTranscript /\ speaker_source = "identify_speakers") =>
     /\ speakers = (0 :> "Speaker_0" @@ 1 :> "Speaker_0" @@ 2 :> "Speaker_1")
     /\ \A r \in 1..Len(results) :
           /\ Len(results[r]) = 2
           /\ results[r][1].start_time = 0 * TicksPerSecond
           /\ results[r][1].end_time = 15 * TicksPerSecond
           /\ results[r][1].speaker = "Speaker_0"
           /\ results[r][2].start_time = 18 * TicksPerSecond
           /\ results[r][2].end_time = 25 * TicksPerSecond
           /\ results[r][2].speaker = "Speaker_1"

\* what a caller reads in a returned chunk
Observed(chunk) ==
  [text |-> chunk.text, start_time |-> chunk.start_time, end_time |-> chunk.end_time,
   speaker |-> chunk.speaker, words |-> WordsOf(chunk)]

\* C6: two calls in a row with the same transcript object, speaker dict and
\* threshold return identical chunk sequences.
C6_Deterministic ==
  Len(results) >= 2 =>
     /\ Len(results[1]) = Len(results[2])
     /\ \A c \in 1..Len(results[1]) : Observed(results[1][c]) = Observed(results[2][c])

\* the numeric suffix of a "Speaker_N" label
Suffix(label) == CHOOSE n \in 0..(MaxSegs + 1) : SpeakerLabel(n) = label

\* C7: identify_speakers labels segment 0 Speaker_0 and segment i with the
\* suffix of segment i-1 plus one exactly when the pause before it is
\* strictly more than 2.0 s, with the same label otherwise; so the suffixes
\* never decrease, never return to an earlier index, and use every index
\* from 0 to the maximum.
C7_LabelRule ==
  (speaker_source = "identify_speakers" /\ Len(Segs) > 0) =>
     /\ speakers[0] = "Speaker_0"
     /\ \A i \in 1..(Len(Segs) - 1) :
           /\ speakers[i] \in { SpeakerLabel(n) : n \in 0..i }
           /\ Suffix(speakers[i]) =
                 Suffix(speakers[i - 1])
                   + (IF Segs[i + 1].start - Segs[i].end > 2 * TicksPerSecond THEN 1 ELSE 0)
     /\ \A i, j \in 0..(Len(Segs) - 1) :
           i <= j => Suffix(speakers[i]) <= Suffix(speakers[j])
     /\ { Suffix(speakers[i]) : i \in 0..(Len(Segs) - 1) }
           = 0..Suffix(speakers[Len(Segs) - 1])

\* C7 witness: a labelled transcript with a pause of exactly 2.0 s that keeps
\* the label and a longer pause that advances it
C7_Witness ==
  /\ speaker_source = "identify_speakers"
  /\ Len(Segs) >= 3
  /\ \E i \in 1..(Len(Segs) - 1) :
        /\ Segs[i + 1].start - Segs[i].end = 2 * TicksPerSecond
        /\ speakers[i] = speakers[i - 1]
  /\ \E i \in 1..(Len(Segs) - 1) :
        /\ Segs[i + 1].start - Segs[i].end > 2 * TicksPerSecond
        /\ speakers[i] # speakers[i - 1]

\* C8: for n >= 1 segments identify_speakers returns a dict whose keys are
\* exactly 0..n-1; for an empty or missing segment list it returns the empty
\* dict.
C8_SegmenterCoverage ==
  speaker_source = "identify_speakers" =>
     /\ DOMAIN speakers = 0..(Len(Segs) - 1)
     /\ ("segments" \notin DOMAIN transcript \/ Segs = <<>>) => speakers = NoSpeakers

\* C8 witness: a labelled transcript of several segments
C8_Witness ==
  /\ speaker_source = "identify_speakers"
  /\ Len(Segs) >= 2
  /\ DOMAIN speakers = 0..(Len(Segs) - 1)

(***************************************************************************)
(* Vocabulary of the properties of the searches.                           *)
(***************************************************************************)
\* the k-th (document, metadata, distance) element of a result
Element(res, k) == <<res.documents[k], res.metadatas[k], res.distances[k]>>

\* the semantic result for the query and n_results of the search just made
SemanticOfSearch == SemanticSearch(collection, search.dist, search.n_results, FALSE)

\* C9: every element of the semantic result appears in the hybrid result,
\* the semantic elements keep their order and precede every keyword-only
\* element (the semantic result is a prefix of the hybrid result), also when
\* two indexed chunks have the same document text.
C9_HybridSuperset ==
  (search.search_strategy = "hybrid" /\ search.failed = <<FALSE, FALSE>>) =>
     /\ Len(SemanticOfSearch.documents) <= Len(search.result.documents)
     /\ \A k \in 1..Len(SemanticOfSearch.documents) :
           Element(search.result, k) = Element(SemanticOfSearch, k)

\* a whitespace-separated term of q: a maximal run q[a..b] without whitespace
IsTerm(q, a, b) ==
  /\ a <= b
  /\ \A k \in a..b : ~IsSpace(q[k])
  /\ (a = 1 \/ IsSpace(q[a - 1]))
  /\ (b = Len(q) \/ IsSpace(q[b + 1]))

\* the lowercased document contains a lowercased term of the query
HasQueryTerm(doc, q) ==
  \E a, b \in 1..Len(q) :
     /\ IsTerm(q, a, b)
     /\ Contains(Lower(doc), Lower(SubSeq(q, a, b)))

\* the top 2 * n_results candidates of the search just made
Candidates == CollectionQuery(collection, search.dist, 2 * search.n_results)

\* the ranks of the candidates that hold a query term, in rank order
MatchingRanks ==
  SelectSeq([k \in 1..Len(Candidates.documents) |-> k],
            LAMBDA k : HasQueryTerm(Candidates.documents[k], search.query))

\* C10: the keyword result is the first n_results, in rank order, of the top
\* 2*n_results candidates whose lowercased text contains a lowercased
\* whitespace-separated query term, each with its own metadata and distance;
\* one match among five candidates for 'startup' gives that one document; a
\* query without terms gives nothing.
C10_KeywordFilter ==
  (search.search_strategy = "keyword" /\ ~search.failed[1]) =>
     LET kept == Take(MatchingRanks, search.n_results)
     IN  /\ Len(search.result.documents) = Len(kept)
         /\ Len(search.result.metadatas) = Len(kept)
         /\ Len(search.result.distances) = Len(kept)
         /\ \A k \in 1..Len(kept) : Element(search.result, k) = Element(Candidates, kept[k])
         /\ (search.query = startup /\ Len(Candidates.documents) = 5 /\ Len(MatchingRanks) = 1)
               => search.result.documents = <<MyStartup>>
         /\ search.query = blank => search.result = EmptyResult

\* C10 witness: a keyword search for 'startup' over five candidates of which
\* one holds the term returns that one
C10_Witness ==
  /\ search.search_strategy = "keyword"
  /\ ~search.failed[1]
  /\ search.query = startup
  /\ Len(Candidates.documents) = 5
  /\ Len(MatchingRanks) = 1
  /\ MatchingRanks[1] > 1
  /\ search.result.documents = <<MyStartup>>

(***************************************************************************)
(* Properties of the index operations and of the engine.                   *)
(***************************************************************************)
\* what the search just made returns when asked with the given strategy,
\* the backend answering as it did
SearchWithStrategy(strategy) ==
  search_similar_content(collection, search.dist, search.query, search.n_results,
                         strategy, search.failed[1], search.failed[2])

\* C11: a search with a strategy other than 'semantic', 'keyword' and
\* 'hybrid' returns what the same search returns with strategy 'semantic'.
C11_FallbackIsSemantic ==
  search.search_strategy \notin {"semantic", "keyword", "hybrid", "none"} =>
     search.result = SearchWithStrategy("semantic")

\* C11 witness: a search with strategy 'fuzzy' returns documents, and not
\* those the keyword strategy returns
C11_Witness ==
  /\ search.search_strategy = "fuzzy"
  /\ search.result.documents # <<>>
  /\ search.result = SearchWithStrategy("semantic")
  /\ search.result # SearchWithStrategy("keyword")

\* a backend call of the search just made raised
SomeCallFailed == search # NoSearch /\ (search.failed[1] \/ search.failed[2])

\* C12: whenever the backend raises during search_similar_content (any
\* strategy, also when only one of the two calls of the hybrid search
\* raises) or during search_by_episode, the operation returns a result
\* without documents, metadatas and distances and does not raise.
C12_FailureGivesEmpty ==
  /\ SomeCallFailed => (search.result = EmptyResult /\ ~raised)
  /\ (op.name = "search_by_episode" /\ op.failed) => (op.ret = EmptyResult /\ ~raised)

\* C13: no operation of the index raises to its caller; when its backend
\* call raises, search_by_episode returns the empty result and
\* get_collection_stats returns zero counts.
C13_NoExceptionCrosses ==
  /\ ~raised
  /\ (op.name = "search_by_episode" /\ op.failed) => op.ret.documents = <<>>
  /\ (op.name = "get_collection_stats" /\ op.failed) =>
        (op.ret.total_chunks = 0 /\ op.ret.total_episodes = 0)

\* the metadata the claim gives the entry of the chunk at position i (from 0)
\* of the add just made
ClaimedMetadata(i) ==
  [episode_id |-> op.episode_id, episode_title |-> op.episode_title,
   chunk_index |-> i, speaker |-> op.chunks[i + 1].speaker,
   start_time |-> op.chunks[i + 1].start_time, end_time |-> op.chunks[i + 1].end_time]

\* the entries of a collection that belong to other episodes than that of
\* the add just made
OtherEpisodes(coll) == SelectSeq(coll, LAMBDA e : e.metadata.episode_id # op.episode_id)

\* C14: after add_transcript_chunks succeeds, every position i of a chunk
\* with non-blank text has an entry with id '{episode_id}_chunk_{i}' whose
\* metadata is the episode id and title, chunk_index i and the chunk's
\* speaker, start_time and end_time; no entry is stored for a chunk with
\* blank text; the entries of other episodes are unchanged.
C14_IndexingContract ==
  (op.name = "add_transcript_chunks" /\ ~raised) =>
     /\ \A i \in 0..(Len(op.chunks) - 1) :
           IF StripNonEmpty(op.chunks[i + 1].text)
             THEN \E k \in 1..Len(collection) :
                     /\ collection[k].id = ChunkId(op.episode_id, i)
                     /\ collection[k].metadata = ClaimedMetadata(i)
             ELSE \A k \in (Len(op.before) + 1)..Len(collection) :
                     collection[k].id # ChunkId(op.episode_id, i)
     /\ OtherEpisodes(collection) = OtherEpisodes(op.before)

\* C15: after clear_collection returns, get_collection_stats reports no
\* chunks and no episodes, and every search with any strategy and every
\* search_by_episode returns no documents.
C15_ClearEmpties ==
  op.name = "clear_collection" =>
     /\ get_collection_stats(collection, FALSE).total_chunks = 0
     /\ get_collection_stats(collection, FALSE).total_episodes = 0
     /\ \A query \in Queries, strategy \in Strategies, dist \in [Documents -> Distances] :
           search_similar_content(collection, dist, query, MaxResults, strategy,
                                  FALSE, FALSE).documents = <<>>
     /\ \A n \in 0..(MaxEpisodes - 1), query \in EpisodeQueries,
           dist \in [Documents -> Distances] :
           search_by_episode(collection, dist, EpisodeId(n), query, MaxResults,
                             FALSE).documents = <<>>

\* s begins with prefix
StartsWith(s, prefix) ==
  Len(s) >= Len(prefix) /\ SubSeq(s, 1, Len(prefix)) = prefix

\* the model id the query just made is answered with
AskedModel == IF op.model = NoneModel THEN engine.default_model ELSE op.model

\* the three ways generation fails
UnknownId == AskedModel \notin {gemini, openai}
MissingCredential ==
  \/ AskedModel = gemini /\ engine.gemini_key = NoKey
  \/ AskedModel = openai /\ engine.openai_key = NoKey
BackendException == op.called # "none" /\ op.backend.kind = "raises"

\* C16: whatever generation does (it answers, the model id is unknown, the
\* key is missing, the backend raises), query_podcasts returns without
\* raising, 'sources' is the result the retrieval returned, and
\* search_info.results_count is the number of its documents.
C16_SourcesAreRetrieval ==
  op.name = "query_podcasts" =>
     /\ ~raised
     /\ op.ret.sources =
           search_similar_content(collection, op.dist, op.query, op.n_results,
                                  op.search_strategy, op.failed[1], op.failed[2])
     /\ op.ret.search_info.results_count = Len(op.ret.sources.documents)

\* C16 witness: the generation backend raised and the query still returns
\* the documents the retrieval found
C16_Witness ==
  /\ op.name = "query_podcasts"
  /\ BackendException
  /\ op.ret.sources.documents # <<>>
  /\ op.ret.search_info.results_count = Len(op.ret.sources.documents)
  /\ op.ret.response # ok

\* C17: when generation fails in query_podcasts (unknown model id, missing
\* key, exception raised by the backend call) the response begins with
\* 'Error: '; for an unknown id it begins with "Error: Unknown model '<id>'"
\* and no generation backend is called.
C17_ErrorPrefix ==
  op.name = "query_podcasts" =>
     /\ (UnknownId \/ MissingCredential \/ BackendException) =>
           StartsWith(op.ret.response, <<"E","r","r","o","r",":"," ">>)
     /\ UnknownId =>
           /\ StartsWith(op.ret.response,
                         UnknownModelPrefix \o AskedModel \o <<"'">>)
           /\ op.called = "none"

\* a timestamp was just formatted by one of the two functions
Formatted == op.name \in {"_format_timestamp", "format_time"}

\* C18: for a negative number and for a value that is not a number (None, a
\* str) _format_timestamp and format_time return '00:00'.
C18_InvalidGivesZero ==
  (Formatted /\ (op.seconds.type # "number" \/ op.seconds.ticks < 0)) =>
     op.ret = <<"0","0",":","0","0">>

\* the characters are decimal digits
AllDigits(chars) ==
  \A k \in 1..Len(chars) : \E d \in 0..9 : DigitChars[d + 1] = chars[k]

\* the number a run of decimal digits writes
RECURSIVE NumberOf(_)
NumberOf(chars) ==
  IF chars = <<>> THEN 0
  ELSE 10 * NumberOf(SubSeq(chars, 1, Len(chars) - 1))
         + (CHOOSE d \in 0..9 : DigitChars[d + 1] = chars[Len(chars)])

\* r writes the time of day of t ticks as MM:SS: floor(s/60) in at least two
\* digits without further leading zeros, a colon, floor(s mod 60) in two digits
IsClockOf(r, t) ==
  LET n == Len(r)
      s == t \div TicksPerSecond
  IN  /\ n >= 5
      /\ r[n - 2] = ":"
      /\ AllDigits(SubSeq(r, 1, n - 3))
      /\ AllDigits(SubSeq(r, n - 1, n))
      /\ NumberOf(SubSeq(r, 1, n - 3)) = s \div 60
      /\ (n = 5 \/ r[1] # "0")
      /\ NumberOf(SubSeq(r, n - 1, n)) = s % 60
      /\ NumberOf(SubSeq(r, n - 1, n)) \in 0..59

\* C19: for a non-negative number of seconds s both functions return
\* floor(s/60) zero-padded to at least two digits, a colon and floor(s mod 60)
\* as two digits in 00..59 (125 gives '02:05'), and the two functions return
\* the same for every input.
C19_ValidTimestamp ==
  Formatted =>
     /\ (op.seconds.type = "number" /\ op.seconds.ticks >= 0) =>
           /\ IsClockOf(op.ret, op.seconds.ticks)
           /\ op.seconds.ticks = 125 * TicksPerSecond => op.ret = <<"0","2",":","0","5">>
     /\ op.ret = _format_timestamp(op.seconds)
     /\ op.ret = format_time(op.seconds)

\* C19 witness: _format_timestamp(125) returned '02:05'
C19_Witness ==
  /\ op.name = "_format_timestamp"
  /\ op.seconds = Number(125 * TicksPerSecond)
  /\ op.ret = <<"0","2",":","0","5">>

\* the positions of the pairs of the result just formatted of which both the
\* document and the metadata are non-empty, in ranked order
FullPairs ==
  LET r == op.search_results
  IN  SelectSeq([k \in 1..Len(r.documents) |-> k],
                LAMBDA k : r.documents[k] # <<>> /\ r.metadatas[k] # EmptyMetadata)

\* the part shows the pair at position k of the result just formatted
ShowsPair(part, k) ==
  LET doc == op.search_results.documents[k]
      metadata == op.search_results.metadatas[k]
  IN  /\ part.content = doc
      /\ "episode_title" \in DOMAIN metadata => part.episode_title = metadata.episode_title
      /\ "speaker" \in DOMAIN metadata => part.speaker = metadata.speaker
      /\ "start_time" \in DOMAIN metadata => IsClockOf(part.start_str, metadata.start_time)
      /\ "end_time" \in DOMAIN metadata => IsClockOf(part.end_str, metadata.end_time)

\* C20: format_context returns 'No relevant content found.' when the result
\* has no documents; otherwise one numbered block for each pair of which
\* document and metadata are both non-empty, in ranked order, with the pair's
\* episode title, MM:SS start and end, speaker and whole document text, and
\* no block for a pair with an empty document or empty metadata.
C20_ContextBlocks ==
  op.name = "format_context" =>
     IF op.search_results.documents = <<>>
       THEN op.ret = [literal |-> "No relevant content found.", parts |-> <<>>]
       ELSE /\ op.ret.literal = ""
            /\ Len(op.ret.parts) = Len(FullPairs)
            /\ \A j \in 1..Len(FullPairs) : ShowsPair(op.ret.parts[j], FullPairs[j])
            /\ \A i, j \in 1..Len(op.ret.parts) :
                  i < j => op.ret.parts[i].source < op.ret.parts[j].source

\* C20 witness: of three pairs the second has an empty document; the context
\* has the blocks of the first and the third
C20_Witness ==
  /\ op.name = "format_context"
  /\ Len(op.search_results.documents) = 3
  /\ FullPairs = <<1, 3>>
  /\ Len(op.ret.parts) = 2
  /\ op.ret.parts[1].content = MyStartup
  /\ op.ret.parts[1].start_str = <<"0","0",":","0","0">>
  /\ op.ret.parts[1].end_str = <<"0","0",":","3","0">>
  /\ op.ret.parts[2].content = art

\* C22: the span of every returned chunk exceeds chunk_duration by at most
\* the duration (end - start) of the last segment absorbed into the chunk.
C22_BoundedOvershoot ==
  \A chunk \in ReturnedChunks :
     chunk.end_time - chunk.start_time - DefaultChunkDuration
        <= Segs[LastSeg(chunk)].end - Segs[LastSeg(chunk)].start

\* C23: a call of chunk_transcript_by_time leaves the transcript it was
\* given as it was: every segment's start, end, text and word list.
C23_InputUnmodified ==
  [][results' # results => transcript' = transcript]_vars

\* the document texts of a result
DocumentsOf(res) == { res.documents[k] : k \in 1..Len(res.documents) }

\* C27: when the semantic result of a hybrid search holds n_results pairwise
\* different document texts, the hybrid result is the semantic result; a
\* document text found by the keyword search alone appears in the hybrid
\* result only when the semantic result holds fewer than n_results different
\* texts; the hybrid result has at most n_results entries and no document
\* text twice.
C27_HybridCollapses ==
  search.search_strategy = "hybrid" =>
     LET sem == SearchWithStrategy("semantic")
         hyb == search.result
     IN  /\ Cardinality(DocumentsOf(sem)) = search.n_results => hyb = sem
         /\ DocumentsOf(hyb) \ DocumentsOf(sem) # {} =>
               Cardinality(DocumentsOf(sem)) < search.n_results
         /\ Len(hyb.documents) <= search.n_results
         /\ \A i, j \in 1..Len(hyb.documents) :
               i < j => hyb.documents[i] # hyb.documents[j]

\* C27 witness: a hybrid search for one result whose keyword search finds
\* 'My Startup' while the semantic search ranks 'art' first: the hybrid
\* result is the semantic one
C27_Witness ==
  /\ search.search_strategy = "hybrid"
  /\ search.n_results = 1
  /\ search.failed = <<FALSE, FALSE>>
  /\ SearchWithStrategy("semantic").documents = <<art>>
  /\ SearchWithStrategy("keyword").documents = <<MyStartup>>
  /\ search.result = SearchWithStrategy("semantic")

\* C27 witness of the other case: the semantic result repeats one document
\* text, so a text found by the keyword search alone enters the hybrid result
C27_WitnessKeywordOnly ==
  /\ search.search_strategy = "hybrid"
  /\ search.n_results = 2
  /\ SearchWithStrategy("semantic").documents = <<art, art>>
  /\ search.result.documents = <<art, MyStartup>>

(***************************************************************************)
(* Properties of the application.                                          *)
(***************************************************************************)
\* the Process Episode run just made, and the Clear All Data just made
Processed == op.name = "process_episode"
Cleared == op.name = "clear_all_data" /\ op.outcome = "cleared"

\* C21: when transcribe_with_timestamps returns after preprocess_audio
\* created the temporary wav (with a transcript, without segments, after an
\* empty preprocessed file, after an exception of the transcription model),
\* the temporary file is deleted: no more temporary files than before.
C21_TempFileReleased ==
  (/\ Processed
   /\ op.outcome \in {"transcribed", "no_segments", "empty_file", "transcribe_raises"})
     => disk.temp = op.temp_before

\* C24: the episode id given to a newly ingested episode is used neither by
\* chunks the Content Index already holds nor by a record the Episode Store
\* already holds.
C24_EpisodeIdsUnique ==
  (Processed /\ op.usable) =>
     /\ op.episode_id \notin EpisodesIn(op.before)
     /\ op.episode_id \notin DOMAIN op.episodes_before

\* a distance for every document of the collection
SomeDistances == [d \in { collection[k].document : k \in 1..Len(collection) } |-> 0]

\* the episodes of which a search over the whole index returns a chunk
FoundEpisodes ==
  LET res == SemanticSearch(collection, SomeDistances, MaxEntries, FALSE)
  IN  { res.metadatas[k].episode_id : k \in 1..Len(res.metadatas) }

\* after Clear All Data no search returns a chunk of a cleared episode
ClearedNotFound == Cleared => FoundEpisodes \cap DOMAIN op.episodes_before = {}

\* C25: after completed Process Episode and Clear All Data actions the
\* episodes with chunks in the Content Index are the episodes with a record
\* in the Episode Store, and after Clear All Data no search returns a chunk
\* of a cleared episode.
C25_IndexMatchesStore ==
  /\ EpisodesIn(collection) = DOMAIN disk.episodes
  /\ ClearedNotFound

\* the entries the index holds for an episode id
EntriesOf(episode_id) ==
  { k \in 1..Len(collection) : collection[k].metadata.episode_id = episode_id }

\* C26: the chunk count of every episode record equals the number of
\* entries the Content Index holds for the episode id, and every chunk the
\* chunker emitted for an indexed episode has non-blank text.
C26_ChunkCountMatches ==
  /\ \A id \in DOMAIN disk.episodes :
        disk.episodes[id].chunks = Cardinality(EntriesOf(id))
  /\ (Processed /\ op.indexed) =>
        \A k \in 1..Len(op.chunks) : StripNonEmpty(op.chunks[k].text)

====
